---- MODULE Spec2Model ----
(***************************************************************************)
(* A model of the zkpepe claimer: the retry wrapper and the gas-gate       *)
(* wrapper (utils.py), the chain client's transaction submission           *)
(* (client.py), the wallet store (database.py) and the claim loop          *)
(* (claimer.py).  Every await of the source is one step of the model; the  *)
(* network (RPC provider, HTTP services, claim contract) is the            *)
(* environment and chooses the outcome of each call.                       *)
(***************************************************************************)
EXTENDS Integers, Sequences, FiniteSets, TLC

(* ------------------------------ bounds --------------------------------- *)
\* wallets in the persisted store at the start of a run
NumWallets == 3
\* above-threshold gas readings the environment may give within one gate
MaxHighReads == 2
\* largest `tries` argument given to the retry wrapper in RetrySpec
MaxTries == 4

(* --------------------------- program constants ------------------------- *)
GAS_THRESHOLD == 70
GAS_DELAY_LO == 10
GAS_DELAY_HI == 10
TX_DELAY_LO == 10
TX_DELAY_HI == 15
REQUEST_MAX_RETRIES == 10
\* AsyncWeb3.to_wei(x, "gwei") multiplies by 10^9
WEI_PER_GWEI == 1000000000

VARIABLES
    disk,      \* the persisted store file: a sequence of dict records
    db,        \* Database.wallets, the in-memory store
    loaded,    \* the store as Database.read_from_json built it
    pc,        \* position of the running coroutine
    index,     \* Claimer.claim: index returned by get_random_wallet
    wallet,    \* Claimer.claim: wallet returned by get_random_wallet
    onchain,   \* claim contract: claimRecord per address
    gate,      \* gas_delay wrapper: last price read and what it has done
    rt,        \* retry wrapper: loop state of the running decorated call
    tries,     \* retry wrapper: the decorator's `tries` argument
    att,       \* Claimer._claim: what the running attempt has seen and done
    tx,        \* Client.send_transaction: locals of the running call
    net,       \* private keys of the wallets a network call was made for
    paced,     \* Claimer.claim: seconds of pacing sleep of the last iteration
    hist,      \* the results the operation under the retry wrapper returned
    env,       \* the gas prices the reference chain reports during the run
    saves,     \* Database.save_database: the times the file was written
    input      \* the key and proxy lines Database._create_database reads

vars == <<disk, db, loaded, pc, index, wallet, onchain, gate, rt, tries,
          att, tx, net, paced, hist, env, saves, input>>

(* ------------------------------ values --------------------------------- *)
\* Python values a decorated operation can return, tagged by type.
None == [t |-> "none"]
False == [t |-> "bool", b |-> FALSE]
True == [t |-> "bool", b |-> TRUE]
PyList(s) == [t |-> "list", l |-> s]
PyInt(n) == [t |-> "int", n |-> n]
PyDict == [t |-> "dict"]
PyHash == [t |-> "hash"]

\* `x is None`, `x is False`
IsNone(x) == x.t = "none"
IsFalse(x) == x.t = "bool" /\ x.b = FALSE

\* Python truthiness: None, False, 0 and empty containers are falsy.
Truthy(x) ==
    CASE x.t = "none" -> FALSE
      [] x.t = "bool" -> x.b
      [] x.t = "list" -> Len(x.l) > 0
      [] x.t = "int" -> x.n # 0
      [] OTHER -> TRUE

\* A wei amount too large for a machine integer, kept as gwei and a
\* remainder below WEI_PER_GWEI: the value is gwei * 10^9 + wei.
Wei(g, w) == [gwei |-> g, wei |-> w]

\* AsyncWeb3.to_wei(n, "gwei")
to_wei(n) == Wei(n, 0)

WeiGT(a, b) == a.gwei > b.gwei \/ (a.gwei = b.gwei /\ a.wei > b.wei)

\* the private keys of the run, and the address each derives
Keys == 1 .. NumWallets
NoProxy == "None"
Address(pk) == 100 + pk
ProxyOf(pk) == IF pk % 2 = 1 THEN "user:pass@host:8080" ELSE NoProxy

(* ---------------------------- wallet store ----------------------------- *)
\* Wallet.__init__: key and proxy of the client, address derived from the key
Wallet(pk, proxy, tokens_claimed) ==
    [private_key |-> pk, address |-> Address(pk), proxy |-> proxy,
     tokens_claimed |-> tokens_claimed]

\* Database._to_dict: vars(wallet) of every wallet, in order
to_dict(wallets) ==
    [i \in 1 .. Len(wallets) |->
        [private_key |-> wallets[i].private_key,
         address |-> wallets[i].address,
         proxy |-> wallets[i].proxy,
         tokens_claimed |-> wallets[i].tokens_claimed]]

\* `Wallet(account=client)`: the remaining item is not passed on
read_from_json_default_flag(file) ==
    [i \in 1 .. Len(file) |->
        Wallet(file[i].private_key, file[i].proxy, FALSE)]

\* Database.read_from_json: the stored address is dropped, the wallet is
\* rebuilt from key and proxy, the remaining item (tokens_claimed) is kept
read_from_json(file) ==
    [i \in 1 .. Len(file) |->
        Wallet(file[i].private_key, file[i].proxy, file[i].tokens_claimed)]

\* Database.is_empty
is_empty(wallets) == ~(Len(wallets) > 0)

\* `self.wallets.pop()`: with no index the last wallet goes
pop_last(wallets, wallet_index) ==
    [i \in 1 .. Len(wallets) - 1 |-> wallets[i]]

\* list.pop(wallet_index), with Python's 0-based index
pop(wallets, wallet_index) ==
    [i \in 1 .. Len(wallets) - 1 |->
        IF i <= wallet_index THEN wallets[i] ELSE wallets[i + 1]]

\* Database.save_database: the file is overwritten with the whole list
save_database(wallets) == to_dict(wallets)

\* the pop without the save: the file stays as it was
delete_wallet_unsaved(wallets, wallet_index) ==
    <<pop(wallets, wallet_index), disk>>

\* the save before the pop: the file keeps the wallet the list has lost
delete_wallet_saved_first(wallets, wallet_index) ==
    <<pop(wallets, wallet_index), save_database(wallets)>>

\* Database.delete_wallet: pop, then save; gives the new <<wallets, file>>
delete_wallet(wallets, wallet_index) ==
    LET left == pop(wallets, wallet_index)
    IN  <<left, save_database(left)>>

(* ---------------------------- retry wrapper ---------------------------- *)
\* The loop state of retry's wrapper: phase is "call" (about to await func),
\* "sleep" (about to await sleep) or "ret" (the wrapper has returned result).
RetryIdle ==
    [phase |-> "idle", i |-> 0, calls |-> 0, sleeps |-> 0, result |-> None]

\* entering `for _ in range(tries)`: no iteration when tries <= 0
retry_enter(n) ==
    IF n > 0
    THEN [RetryIdle EXCEPT !.phase = "call"]
    ELSE [RetryIdle EXCEPT !.phase = "ret", !.result = False]

\* `if not result:` in place of the two identity tests
retry_result_falsy(r, result) ==
    IF ~Truthy(result)
    THEN [r EXCEPT !.phase = "sleep", !.calls = @ + 1]
    ELSE [r EXCEPT !.phase = "ret", !.calls = @ + 1, !.result = result]

\* `result = await func(...)`, then the test of the result
retry_result(r, result) ==
    IF IsNone(result) \/ IsFalse(result)
    THEN [r EXCEPT !.phase = "sleep", !.calls = @ + 1]
    ELSE [r EXCEPT !.phase = "ret", !.calls = @ + 1, !.result = result]

\* `range(tries + 1)`: one iteration too many
retry_slept_once_more(r, n) ==
    IF r.i + 1 <= n
    THEN [r EXCEPT !.phase = "call", !.i = @ + 1, !.sleeps = @ + 1]
    ELSE [r EXCEPT !.phase = "ret", !.i = @ + 1, !.sleeps = @ + 1,
                   !.result = False]

\* no sleep after the failure of the last try
retry_slept_not_after_last(r, n) ==
    IF r.i + 1 < n
    THEN [r EXCEPT !.phase = "call", !.i = @ + 1, !.sleeps = @ + 1]
    ELSE [r EXCEPT !.phase = "ret", !.i = @ + 1, !.result = False]

\* `await sleep(...)`, then the next iteration or `return False`
retry_slept(r, n) ==
    IF r.i + 1 < n
    THEN [r EXCEPT !.phase = "call", !.i = @ + 1, !.sleeps = @ + 1]
    ELSE [r EXCEPT !.phase = "ret", !.i = @ + 1, !.sleeps = @ + 1,
                   !.result = False]

(* --------------------------- gas-gate wrapper -------------------------- *)
\* The state of gas_delay's wrapper: the last price read, every price read
\* so far, and counts of its reads, sleeps and calls of func.
GateIdle ==
    [price |-> Wei(0, 0), seen |-> <<>>, reads |-> 0, highs |-> 0,
     sleeps |-> 0, delay |-> 0, calls |-> 0, out |-> "idle", result |-> None]

\* `>=` in place of `>`
exceeds_threshold_ge(current_eth_gas_price, gas_threshold) ==
    ~WeiGT(to_wei(gas_threshold), current_eth_gas_price)

\* `current_eth_gas_price > threshold`
exceeds_threshold(current_eth_gas_price, gas_threshold) ==
    WeiGT(current_eth_gas_price, to_wei(gas_threshold))

\* a missing `return`: the wrapper awaits func and gives None
gas_delay_result_dropped(func_result) == None

\* `return await func(*args, **kwargs)`
gas_delay_result(func_result) == func_result

\* the wrapper sleeps for the delay it logged and then for sleep's own
gas_delay_slept_twice(g, delay) ==
    [g EXCEPT !.sleeps = @ + 2, !.delay = @ + delay + delay]

\* `await sleep(delay_range=delay_range, send_message=False)` has slept
gas_delay_slept(g, delay) ==
    [g EXCEPT !.sleeps = @ + 1, !.delay = @ + delay]

\* gas prices the reference chain may report: the threshold, one wei above
\* it, one wei below it, and a few wei
GasPrices ==
    {Wei(0, GAS_THRESHOLD + 1), Wei(GAS_THRESHOLD - 1, WEI_PER_GWEI - 1),
     Wei(GAS_THRESHOLD, 0), Wei(GAS_THRESHOLD, 1)}

(* ------------------------- environment's answers ----------------------- *)
\* what one GET of the amount service can give send_get_request's body:
\* None for every caught failure, else the parsed JSON
AmountResponses == {None, PyList(<<>>), PyList(<<0>>), PyList(<<5>>)}
\* the same for the proof service
ProofResponses == {None, PyList(<<>>), PyList(<<"0xab">>)}
\* what w3.eth.estimate_gas can give _get_gas_estimate's body
EstimateResponses == {None, PyInt(21000)}
\* the three live reads of _get_tx_params, or "ok" when none of them raises
BuildOutcomes == {"ok", "chain_id", "nonce", "gas_price"}
\* wait_for_transaction_receipt: a receipt with status 1, with status 0 or
\* with no status, or an exception (a timeout among them)
ReceiptOutcomes == {"status1", "status0", "nostatus", "timeout"}

\* the answers of an environment in which every step of a claim succeeds
GoodAmountResponses == {PyList(<<5>>)}
GoodProofResponses == {PyList(<<"0xab">>)}
GoodEstimateResponses == {PyInt(21000)}

(* ------------------------------- state --------------------------------- *)
AttIdle ==
    [out |-> "idle", result |-> None, record |-> FALSE, claimed |-> None,
     amount |-> None, proof |-> None]

TxIdle ==
    [out |-> "idle", result |-> None, params |-> None, gas |-> None,
     signs |-> 0, sends |-> 0, failed |-> "no", receipt |-> "none"]

\* a store file of n records of distinct keys, each with its claimed flag
FileOf(n, flags) ==
    [i \in 1 .. n |->
        [private_key |-> i, address |-> Address(i), proxy |-> ProxyOf(i),
         tokens_claimed |-> flags[i]]]

\* no text files are read outside Database.create_database
NoInput == [private_keys |-> <<>>, proxies |-> <<>>, mobile |-> FALSE]

InitCommon ==
    /\ db = <<>>
    /\ loaded = <<>>
    /\ index = 0
    /\ wallet = Wallet(1, NoProxy, FALSE)
    /\ gate = GateIdle
    /\ att = AttIdle
    /\ tx = TxIdle
    /\ net = {}
    /\ paced = 0
    /\ hist = <<>>
    /\ saves = 0
    /\ input = NoInput

\* A run over a store of up to NumWallets wallets.  A wallet flagged in the
\* file has its record set on the chain, a key outside the file has none.
\* The reference chain reports the threshold or one wei more, and at most
\* one reading of a gate is above the threshold.
Init ==
    /\ \E n \in 0 .. NumWallets :
         \E flags \in [1 .. n -> BOOLEAN] :
           /\ disk = FileOf(n, flags)
           /\ onchain \in
                {f \in [{Address(k) : k \in Keys} -> BOOLEAN] :
                   \A k \in Keys :
                     /\ k > n => ~f[Address(k)]
                     /\ (k <= n /\ flags[k]) => f[Address(k)]}
    /\ env = [highs |-> 1,
              prices |-> {Wei(GAS_THRESHOLD, 0), Wei(GAS_THRESHOLD, 1)}]
    /\ pc = "start"
    /\ tries = REQUEST_MAX_RETRIES
    /\ rt = RetryIdle
    /\ InitCommon

\* A run over a store of one unclaimed wallet, with every price of
\* GasPrices and up to MaxHighReads readings above the threshold in a gate.
GateInit ==
    /\ disk = FileOf(1, <<FALSE>>)
    /\ onchain \in [{Address(k) : k \in Keys} -> BOOLEAN]
    /\ env = [highs |-> MaxHighReads, prices |-> GasPrices]
    /\ pc = "start"
    /\ tries = REQUEST_MAX_RETRIES
    /\ rt = RetryIdle
    /\ InitCommon

\* what an operation under the retry wrapper may return
HarnessResults ==
    {None, False, True, PyInt(0), PyList(<<>>), PyList(<<5>>), PyDict}

\* One call of retry(tries)(func)(), for every tries up to MaxTries and
\* every sequence of results of func.
RetryInit ==
    /\ disk = <<>>
    /\ onchain = [a \in {Address(k) : k \in Keys} |-> FALSE]
    /\ env = [highs |-> 0, prices |-> {}]
    /\ pc = "harness"
    /\ tries \in 0 .. MaxTries
    /\ rt = retry_enter(tries)
    /\ InitCommon

(* ----------------------------- Claimer.claim --------------------------- *)
\* a frame an exception passes through, and one that returns
Raised(frame) == [frame EXCEPT !.out = IF @ = "running" THEN "raised" ELSE @]
Returned(frame, value) == [frame EXCEPT !.out = "returned", !.result = value]

\* `database = Database.read_from_json()`
claim_load ==
    /\ pc = "start"
    /\ db' = read_from_json(disk)
    /\ loaded' = read_from_json(disk)
    /\ pc' = "loop"
    /\ UNCHANGED <<disk, index, wallet, onchain, gate, rt, tries, att, tx,
                   net, paced, hist, env, saves, input>>

\* `while not database.is_empty()` is false: the loop and the run end
claim_exit ==
    /\ pc = "loop"
    /\ is_empty(db)
    /\ pc' = "done"
    /\ UNCHANGED <<disk, db, loaded, index, wallet, onchain, gate, rt, tries,
                   att, tx, net, paced, hist, env, saves, input>>

\* Database.get_random_wallet: random.randrange(len(self.wallets))
get_random_wallet(wallets) ==
    {<<wallets[i + 1], i>> : i \in 0 .. Len(wallets) - 1}

\* the test of the local flag left out
locally_claimed_unchecked(w) == FALSE

\* `if wallet.tokens_claimed:`
locally_claimed(w) == w.tokens_claimed

\* one pass through the head of the loop: select, then either delete a
\* locally flagged wallet and continue, or build the client and enter the
\* gas gate of claimer._claim() up to its first await
claim_select ==
    /\ pc = "loop"
    /\ ~is_empty(db)
    /\ \E pick \in get_random_wallet(db) :
         /\ wallet' = pick[1]
         /\ index' = pick[2]
         /\ IF locally_claimed(pick[1])
            THEN /\ db' = delete_wallet(db, pick[2])[1]
                 /\ disk' = delete_wallet(db, pick[2])[2]
                 /\ saves' = saves + 1
                 /\ pc' = "loop"
                 /\ gate' = GateIdle
            ELSE /\ pc' = "gate_read"
                 /\ gate' = [GateIdle EXCEPT !.out = "running"]
                 /\ UNCHANGED <<db, disk, saves>>
    /\ att' = AttIdle
    /\ tx' = TxIdle
    /\ rt' = RetryIdle
    /\ paced' = 0
    /\ UNCHANGED <<loaded, onchain, tries, net, hist, env, input>>

(* ------------------------------ gas_delay ------------------------------ *)
\* `await get_eth_gas_fee()` raises: nothing in the wrapper catches it
gas_delay_read_raises ==
    /\ pc = "gate_read"
    /\ net' = net \cup {wallet.private_key}
    /\ gate' = Raised([gate EXCEPT !.reads = @ + 1])
    /\ pc' = "crashed"
    /\ UNCHANGED <<disk, db, loaded, index, wallet, onchain, rt, tries, att,
                   tx, paced, hist, env, saves, input>>

\* `await get_eth_gas_fee()` returns a price; the comparison sends the
\* wrapper to its sleep or out of the loop and into func.  The loop has no
\* bound of its own: env.highs bounds the readings above the threshold that
\* the chain gives one gate.
gas_delay_read(price) ==
    /\ pc = "gate_read"
    /\ net' = net \cup {wallet.private_key}
    /\ IF exceeds_threshold(price, GAS_THRESHOLD)
       THEN /\ gate.highs < env.highs
            /\ gate' = [gate EXCEPT !.price = price, !.reads = @ + 1,
                                    !.seen = Append(@, price),
                                    !.highs = @ + 1]
            /\ pc' = "gate_sleep"
            /\ att' = att
       ELSE /\ gate' = [gate EXCEPT !.price = price, !.reads = @ + 1,
                                    !.seen = Append(@, price),
                                    !.calls = @ + 1]
            /\ pc' = "check_claimed"
            /\ att' = [AttIdle EXCEPT !.out = "running",
                                      !.record = onchain[wallet.address]]
    /\ UNCHANGED <<disk, db, loaded, index, wallet, onchain, rt, tries, tx,
                   paced, hist, env, saves, input>>

\* `await sleep(delay_range=delay_range, send_message=False)`
gas_delay_sleep ==
    /\ pc = "gate_sleep"
    /\ \E delay \in GAS_DELAY_LO .. GAS_DELAY_HI :
         gate' = gas_delay_slept(gate, delay)
    /\ pc' = "gate_read"
    /\ UNCHANGED <<disk, db, loaded, index, wallet, onchain, rt, tries, att,
                   tx, net, paced, hist, env, saves, input>>

(* ---------------------------- Claimer._claim --------------------------- *)
\* Claimer._check_if_claimed: the contract's record, or False when the
\* call raises
check_if_claimed(outcome, record) ==
    IF outcome = "ok" THEN record ELSE FALSE

\* `if await self._check_if_claimed(): return True`, else on to
\* _get_claim_data and its first GET
claim_check(outcome) ==
    /\ pc = "check_claimed"
    /\ net' = net \cup {wallet.private_key}
    /\ IF check_if_claimed(outcome, onchain[wallet.address])
       THEN /\ att' = Returned([att EXCEPT !.claimed = True], True)
            /\ pc' = "gate_ret"
            /\ rt' = rt
       ELSE /\ att' = [att EXCEPT !.claimed = False]
            /\ pc' = "amount"
            /\ rt' = retry_enter(REQUEST_MAX_RETRIES)
    /\ UNCHANGED <<disk, db, loaded, index, wallet, onchain, gate, tries, tx,
                   paced, hist, env, saves, input>>

\* the sleep of the retry wrapper, whichever decorated call is running
retry_sleep ==
    /\ pc \in {"amount", "proof", "txparams", "estimate", "harness"}
    /\ rt.phase = "sleep"
    /\ rt' = retry_slept(rt, tries)
    /\ UNCHANGED <<disk, db, loaded, pc, index, wallet, onchain, gate, tries,
                   att, tx, net, paced, hist, env, saves, input>>

\* one run of send_get_request's body for the amount URL
amount_get(response) ==
    /\ pc = "amount"
    /\ rt.phase = "call"
    /\ rt' = retry_result(rt, response)
    /\ net' = net \cup {wallet.private_key}
    /\ UNCHANGED <<disk, db, loaded, pc, index, wallet, onchain, gate, tries,
                   att, tx, paced, hist, env, saves, input>>

\* `(amount,) = ...`: only a one-element sequence unpacks
unpacks(value) == value.t = "list" /\ Len(value.l) = 1

\* Claimer._get_claimable_amount after the GET: unpack, return the amount,
\* and _get_claim_data goes on to the proof
claim_amount ==
    /\ pc = "amount"
    /\ rt.phase = "ret"
    /\ IF unpacks(rt.result)
       THEN /\ att' = [att EXCEPT !.amount = PyInt(rt.result.l[1])]
            /\ pc' = "proof"
            /\ rt' = retry_enter(REQUEST_MAX_RETRIES)
            /\ gate' = gate
       ELSE /\ att' = Raised([att EXCEPT !.amount = rt.result])
            /\ gate' = Raised(gate)
            /\ pc' = "crashed"
            /\ rt' = RetryIdle
    /\ UNCHANGED <<disk, db, loaded, index, wallet, onchain, tries, tx, net,
                   paced, hist, env, saves, input>>

\* one run of send_get_request's body for the proof URL
proof_get(response) ==
    /\ pc = "proof"
    /\ rt.phase = "call"
    /\ rt' = retry_result(rt, response)
    /\ net' = net \cup {wallet.private_key}
    /\ UNCHANGED <<disk, db, loaded, pc, index, wallet, onchain, gate, tries,
                   att, tx, paced, hist, env, saves, input>>

\* `if amount and proof:` of _get_claim_data
claim_data_ok(amount, proof) == Truthy(amount) /\ Truthy(proof)

\* _get_claim_data returns; _claim gives up or encodes the call and enters
\* send_transaction up to _get_tx_params' first await
claim_data ==
    /\ pc = "proof"
    /\ rt.phase = "ret"
    /\ IF claim_data_ok(att.amount, rt.result)
       THEN /\ att' = [att EXCEPT !.proof = rt.result]
            /\ tx' = [TxIdle EXCEPT !.out = "running"]
            /\ pc' = "txparams"
            /\ rt' = retry_enter(REQUEST_MAX_RETRIES)
       ELSE /\ att' = Returned([att EXCEPT !.proof = rt.result], False)
            /\ pc' = "gate_ret"
            /\ rt' = RetryIdle
            /\ tx' = tx
    /\ UNCHANGED <<disk, db, loaded, index, wallet, onchain, gate, tries, net,
                   paced, hist, env, saves, input>>

(* ------------------------ Client.send_transaction ---------------------- *)
\* Client._get_tx_params' body: chain id, nonce and gas price are read with
\* no try around them
get_tx_params(outcome) ==
    /\ pc = "txparams"
    /\ rt.phase = "call"
    /\ net' = net \cup {wallet.private_key}
    /\ IF outcome = "ok"
       THEN /\ rt' = retry_result(rt, PyDict)
            /\ UNCHANGED <<pc, att, tx, gate>>
       ELSE /\ tx' = Raised([tx EXCEPT !.failed = "build"])
            /\ att' = Raised(att)
            /\ gate' = Raised(gate)
            /\ pc' = "crashed"
            /\ rt' = rt
    /\ UNCHANGED <<disk, db, loaded, index, wallet, onchain, tries, paced,
                   hist, env, saves, input>>

\* `tx_params = await self._get_tx_params(...)`, then into _get_gas_estimate
send_transaction_built ==
    /\ pc = "txparams"
    /\ rt.phase = "ret"
    /\ tx' = [tx EXCEPT !.params = rt.result]
    /\ pc' = "estimate"
    /\ rt' = retry_enter(REQUEST_MAX_RETRIES)
    /\ UNCHANGED <<disk, db, loaded, index, wallet, onchain, gate, tries, att,
                   net, paced, hist, env, saves, input>>

\* Client._get_gas_estimate's body: the estimate, or None when it raises
get_gas_estimate(response) ==
    /\ pc = "estimate"
    /\ rt.phase = "call"
    /\ rt' = retry_result(rt, response)
    /\ net' = net \cup {wallet.private_key}
    /\ UNCHANGED <<disk, db, loaded, pc, index, wallet, onchain, gate, tries,
                   att, tx, paced, hist, env, saves, input>>

\* `if gas is None: return None`
no_estimate(gas) == IsNone(gas)

\* sign_transaction takes an integer gas; anything else is an invalid
\* field, for which it raises TypeError
signable(gas) == gas.t = "int"

\* `gas = await self._get_gas_estimate(...)`, the None test, and the signing
send_transaction_sign ==
    /\ pc = "estimate"
    /\ rt.phase = "ret"
    /\ IF no_estimate(rt.result)
       THEN /\ tx' = Returned([tx EXCEPT !.gas = rt.result,
                                         !.failed = "estimate"], None)
            /\ att' = Returned(att, False)
            /\ pc' = "gate_ret"
            /\ gate' = gate
       ELSE IF signable(rt.result)
       THEN /\ tx' = [tx EXCEPT !.gas = rt.result, !.signs = @ + 1]
            /\ pc' = "broadcast"
            /\ UNCHANGED <<att, gate>>
       ELSE /\ tx' = Raised([tx EXCEPT !.gas = rt.result,
                                       !.failed = "estimate"])
            /\ att' = Raised(att)
            /\ gate' = Raised(gate)
            /\ pc' = "crashed"
    /\ rt' = RetryIdle
    /\ UNCHANGED <<disk, db, loaded, index, wallet, onchain, tries, net,
                   paced, hist, env, saves, input>>

\* `await self.w3.eth.send_raw_transaction(...)`: the hash, or None when the
\* node rejects it; back in _claim, `if tx_hash:` leads to verify_tx
send_transaction_broadcast(accepted) ==
    /\ pc = "broadcast"
    /\ net' = net \cup {wallet.private_key}
    /\ IF accepted
       THEN /\ tx' = Returned([tx EXCEPT !.sends = @ + 1], PyHash)
            /\ pc' = "verify"
            /\ att' = att
       ELSE /\ tx' = Returned([tx EXCEPT !.failed = "broadcast"], None)
            /\ att' = Returned(att, False)
            /\ pc' = "gate_ret"
    /\ UNCHANGED <<disk, db, loaded, index, wallet, onchain, gate, rt, tries,
                   paced, hist, env, saves, input>>

\* `if "status" in response:` with the comparison to 1 left out
verify_tx_any_status(outcome) ==
    IF outcome \in {"status1", "status0"} THEN True ELSE False

\* Client.verify_tx: True only for a receipt whose status is 1
verify_tx(outcome) == IF outcome = "status1" THEN True ELSE False

\* `return await self.client.verify_tx(tx_hash=tx_hash)`; a transaction that
\* succeeded sets the contract's record, seen by verify_tx or not
claim_verify(outcome, landed) ==
    /\ pc = "verify"
    /\ outcome = "status1" => landed
    /\ outcome \in {"status0", "nostatus"} => ~landed
    /\ net' = net \cup {wallet.private_key}
    /\ onchain' = IF landed
                  THEN [onchain EXCEPT ![wallet.address] = TRUE]
                  ELSE onchain
    /\ att' = Returned(att, verify_tx(outcome))
    /\ tx' = [tx EXCEPT !.receipt = outcome]
    /\ pc' = "gate_ret"
    /\ UNCHANGED <<disk, db, loaded, index, wallet, gate, rt, tries, paced,
                   hist, env, saves, input>>

(* ------------------------ back in Claimer.claim ------------------------ *)
\* a deletion whatever the attempt returned
claimed_now_always(tokens_claimed) == TRUE

\* `if tokens_claimed:`
claimed_now(tokens_claimed) == Truthy(tokens_claimed)

\* the gas gate returns func's result to `tokens_claimed = ...`; a claimed
\* wallet is deleted and the store saved
claim_after ==
    /\ pc = "gate_ret"
    /\ gate' = Returned(gate, gas_delay_result(att.result))
    /\ IF claimed_now(gas_delay_result(att.result))
       THEN /\ db' = delete_wallet(db, index)[1]
            /\ disk' = delete_wallet(db, index)[2]
            /\ saves' = saves + 1
       ELSE UNCHANGED <<db, disk, saves>>
    /\ pc' = "pace"
    /\ UNCHANGED <<loaded, index, wallet, onchain, rt, tries, att, tx, net,
                   paced, hist, env, input>>

\* the pacing sleep awaited a second time
pacing_sleep_twice(slept, delay) == slept + delay + delay

\* `await asyncio.sleep(delay=delay)`: the seconds the iteration has slept
pacing_sleep(slept, delay) == slept + delay

\* `await sleep(delay_range=TX_DELAY_RANGE, send_message=False)`; the
\* frames of the finished attempt are gone
claim_pace ==
    /\ pc = "pace"
    /\ \E delay \in TX_DELAY_LO .. TX_DELAY_HI :
         paced' = pacing_sleep(paced, delay)
    /\ pc' = "loop"
    /\ gate' = GateIdle
    /\ att' = AttIdle
    /\ tx' = TxIdle
    /\ UNCHANGED <<disk, db, loaded, index, wallet, onchain, rt, tries, net,
                   hist, env, saves, input>>

(* ----------------------- the retry wrapper alone ----------------------- *)
\* `result = await func(*args, **kwargs)` for a func that returns `result`
harness_call(result) ==
    /\ pc = "harness"
    /\ rt.phase = "call"
    /\ rt' = retry_result(rt, result)
    /\ hist' = Append(hist, result)
    /\ UNCHANGED <<disk, db, loaded, pc, index, wallet, onchain, gate, tries,
                   att, tx, net, paced, env, saves, input>>

\* the wrapper's `return result` or `return False`
harness_return ==
    /\ pc = "harness"
    /\ rt.phase = "ret"
    /\ pc' = "harness_done"
    /\ UNCHANGED <<disk, db, loaded, index, wallet, onchain, gate, rt, tries,
                   att, tx, net, paced, hist, env, saves, input>>

(* --------------------------- specifications ---------------------------- *)
Next ==
    \/ claim_load
    \/ claim_exit
    \/ claim_select
    \/ gas_delay_read_raises
    \/ \E price \in env.prices : gas_delay_read(price)
    \/ gas_delay_sleep
    \/ \E outcome \in {"ok", "raises"} : claim_check(outcome)
    \/ retry_sleep
    \/ \E response \in AmountResponses : amount_get(response)
    \/ claim_amount
    \/ \E response \in ProofResponses : proof_get(response)
    \/ claim_data
    \/ \E outcome \in BuildOutcomes : get_tx_params(outcome)
    \/ send_transaction_built
    \/ \E response \in EstimateResponses : get_gas_estimate(response)
    \/ send_transaction_sign
    \/ \E accepted \in BOOLEAN : send_transaction_broadcast(accepted)
    \/ \E outcome \in ReceiptOutcomes, landed \in BOOLEAN :
         claim_verify(outcome, landed)
    \/ claim_after
    \/ claim_pace

Spec == Init /\ [][Next]_vars

GateSpec == GateInit /\ [][Next]_vars

RetryNext ==
    \/ \E result \in HarnessResults : harness_call(result)
    \/ retry_sleep
    \/ harness_return

RetrySpec == RetryInit /\ [][RetryNext]_vars

\* The run in an environment where every step of a claim succeeds: no call
\* raises, both services answer, the estimate is given, the broadcast is
\* accepted and the receipt has status 1.
NextGood ==
    \/ claim_load
    \/ claim_exit
    \/ claim_select
    \/ \E price \in env.prices : gas_delay_read(price)
    \/ gas_delay_sleep
    \/ claim_check("ok")
    \/ \E response \in GoodAmountResponses : amount_get(response)
    \/ claim_amount
    \/ \E response \in GoodProofResponses : proof_get(response)
    \/ claim_data
    \/ get_tx_params("ok")
    \/ send_transaction_built
    \/ \E response \in GoodEstimateResponses : get_gas_estimate(response)
    \/ send_transaction_sign
    \/ send_transaction_broadcast(TRUE)
    \/ claim_verify("status1", TRUE)
    \/ claim_after
    \/ claim_pace

\* a reading of the gas price that lets the gate open
GasReadOk ==
    \E price \in env.prices :
      ~exceeds_threshold(price, GAS_THRESHOLD) /\ gas_delay_read(price)

\* the event loop runs every coroutine that can run, and the gas price is
\* at or below the threshold again and again
LiveSpec ==
    Init /\ [][NextGood]_vars /\ WF_vars(NextGood) /\ SF_vars(GasReadOk)

(* ------------------------------- claims -------------------------------- *)
\* the failure values of the retry wrapper's contract
FailureValue(v) == v = None \/ v = False
AllFailed == \A i \in 1 .. Len(hist) : FailureValue(hist[i])

\* C1: with tries = N >= 1 and an operation that returns None or False on
\* every call, the retry wrapper calls it exactly N times, never more, and
\* then returns False.
C1_RetryExhausted ==
    (tries >= 1 /\ AllFailed) =>
        /\ Len(hist) <= tries
        /\ rt.calls = Len(hist)
        /\ rt.phase = "ret" => (Len(hist) = tries /\ rt.result = False)
        /\ pc = "harness_done" => rt.phase = "ret"

C1_Witness ==
    /\ pc = "harness_done"
    /\ tries = 3
    /\ AllFailed
    /\ Len(hist) = 3
    /\ rt.result = False

\* the threshold in wei, and the number of readings above it so far
ThresholdWei == [gwei |-> GAS_THRESHOLD, wei |-> 0]
Above(price) ==
    price.gwei > GAS_THRESHOLD \/ (price.gwei = GAS_THRESHOLD /\ price.wei > 0)
HighReads == Cardinality({i \in 1 .. Len(gate.seen) : Above(gate.seen[i])})

\* C2: the gas gate never calls the protected operation while the last
\* price read is above the threshold (GAS_THRESHOLD gwei in wei), and after
\* a reading equal to the threshold the operation is called.
C2_GateClosedAboveThreshold ==
    /\ gate.calls > 0 => ~Above(gate.price)
    /\ att.out # "idle" => ~Above(gate.price)
    /\ (gate.reads > 0 /\ gate.price = ThresholdWei) =>
           (gate.calls = 1 /\ att.out # "idle" /\ pc # "gate_sleep")

C2_Witness ==
    /\ pc = "check_claimed"
    /\ gate.price = ThresholdWei
    /\ Len(gate.seen) = 2
    /\ gate.seen[1] = [gwei |-> GAS_THRESHOLD, wei |-> 1]

\* C9: when the first k prices read are above the threshold and the next is
\* not, the protected operation is called after exactly k + 1 reads and k
\* sleeps, and the sleeps add up to k times the re-check interval of 10 s.
C9_GateReadsAndSleeps ==
    gate.calls > 0 =>
        /\ gate.reads = HighReads + 1
        /\ Len(gate.seen) = HighReads + 1
        /\ \A i \in 1 .. HighReads : Above(gate.seen[i])
        /\ ~Above(gate.seen[HighReads + 1])
        /\ gate.sleeps = HighReads
        /\ gate.delay = HighReads * GAS_DELAY_LO
        /\ gate.delay = HighReads * GAS_DELAY_HI

C9_Witness ==
    /\ pc = "check_claimed"
    /\ HighReads = 2
    /\ gate.reads = 3
    /\ gate.sleeps = 2
    /\ gate.delay = 20

\* C10: one call of the gas gate calls the wrapped operation exactly once
\* and returns that call's result unchanged; after the operation has been
\* called the gate reads no price and sleeps no more.
C10_GateCallsOnce ==
    /\ att.out # "idle" =>
           /\ gate.calls = 1
           /\ gate.reads = HighReads + 1
           /\ gate.sleeps = HighReads
           /\ pc \notin {"gate_read", "gate_sleep"}
    /\ gate.out = "returned" =>
           /\ att.out = "returned"
           /\ gate.calls = 1
           /\ gate.result = att.result

C10_Witness ==
    /\ gate.out = "returned"
    /\ att.result = True
    /\ gate.result = True
    /\ HighReads = 1
    /\ tx.sends = 1

\* the wallets of a store with a given key
Holds(wallets, pk) == \E i \in 1 .. Len(wallets) : wallets[i].private_key = pk

\* the attempt on the selected wallet is over: _claim returned or raised
AttemptOver == att.out \in {"returned", "raised"}

\* C3: no failure of a network step makes an exception leave Claimer.claim.
C3_NoExceptionEscapes == pc # "crashed"

\* the amount service gave nothing usable (every GET failed, an empty
\* array, or the amount 0), or the proof is empty
NoUsableClaimData ==
    \/ att.amount \in {False, PyList(<<>>), PyInt(0)}
    \/ att.proof = PyList(<<>>)

\* C4: when the amount service gives no usable amount or the proof is
\* empty, _claim returns failure, nothing is signed or broadcast in the
\* attempt, and the wallet stays in the store.
C4_NoClaimDataFails ==
    (AttemptOver /\ NoUsableClaimData) =>
        /\ att.out = "returned"
        /\ att.result = False
        /\ tx.signs = 0
        /\ tx.sends = 0
        /\ Holds(db, wallet.private_key)

\* C5: send_transaction returns no identifier, with nothing signed or
\* broadcast, when the build fails or every estimate fails, and returns no
\* identifier after a rejected broadcast.
C5_SendTransactionGivesNone ==
    (tx.out # "running" /\ tx.failed \in {"build", "estimate", "broadcast"}) =>
        /\ tx.out = "returned"
        /\ tx.result = None
        /\ tx.sends = 0
        /\ tx.failed \in {"build", "estimate"} => tx.signs = 0

\* C6: a wallet flagged as claimed in the loaded store is removed when it
\* is selected, and no network call is ever made for it.
C6_FlaggedRemovedOffline ==
    /\ \A i \in 1 .. Len(loaded) :
         loaded[i].tokens_claimed => loaded[i].private_key \notin net
    /\ wallet.tokens_claimed =>
         /\ ~Holds(db, wallet.private_key)
         /\ ~Holds(disk, wallet.private_key)
         /\ pc \in {"loop", "done"}
         /\ gate = GateIdle /\ att = AttIdle /\ tx = TxIdle

C6_Witness ==
    /\ pc = "loop"
    /\ wallet.tokens_claimed
    /\ Holds(loaded, wallet.private_key)
    /\ Len(db) = 1
    /\ Len(loaded) = 3
    /\ net # {}

\* C7: when the contract's record for the wallet is true at a claim
\* attempt, _claim submits nothing, reports the wallet claimed, and the
\* wallet is removed from the store.
C7_RecordedClaimSkips ==
    (att.record /\ att.out = "returned") =>
        /\ att.result = True
        /\ tx = TxIdle
        /\ pc = "pace" => ~Holds(db, wallet.private_key)

\* C8: when the gas price is at or below the threshold again and again and
\* every step of every claim succeeds, Claimer.claim terminates, with the
\* store empty in memory and in the file.
C8_ClaimTerminatesEmpty == <>(pc = "done" /\ db = <<>> /\ disk = <<>>)

C8_Witness ==
    /\ pc = "done"
    /\ db = <<>>
    /\ disk = <<>>
    /\ Len(loaded) = 3
    /\ Cardinality({i \in 1 .. 3 : loaded[i].tokens_claimed}) = 2
    /\ Cardinality(net) = 1

(* ----------------------- Database.create_database -------------------- *)
\* the lines a proxies file may hold
ProxyLines == {"user:pass@host:8080", "user:pass@host:8081"}

\* the sequences over S of length up to n
SeqsUpTo(S, n) == UNION {[1 .. k -> S] : k \in 0 .. n}

\* `proxies * len(private_keys)`: the list repeated n times
repeat(list, n) ==
    [i \in 1 .. Len(list) * n |-> list[((i - 1) % Len(list)) + 1]]

\* zip_longest's fillvalue None in the place of a key, which is no key of Keys
NoKey == 0

\* the proxies used for pairing: `if USE_MOBILE_PROXY: proxies = ...`
pairing_proxies(in) ==
    IF in.mobile THEN repeat(in.proxies, Len(in.private_keys)) ELSE in.proxies

\* the built-in zip, which stops at the end of the shorter list
zip_shortest(private_keys, proxies) ==
    LET n == IF Len(private_keys) < Len(proxies)
             THEN Len(private_keys) ELSE Len(proxies)
    IN  [i \in 1 .. n |-> <<private_keys[i], proxies[i]>>]

\* `itertools.zip_longest(private_keys, proxies, fillvalue=None)`
zip_longest(private_keys, proxies) ==
    LET n == IF Len(private_keys) > Len(proxies)
             THEN Len(private_keys) ELSE Len(proxies)
    IN  [i \in 1 .. n |->
            <<IF i <= Len(private_keys) THEN private_keys[i] ELSE NoKey,
              IF i <= Len(proxies) THEN proxies[i] ELSE NoProxy>>]

\* `Client(private_key=None)` raises TypeError from Account.from_key, which
\* `except TypeError:` turns into sys.exit(1)
create_exits(in) ==
    \E i \in DOMAIN zip_longest(in.private_keys, pairing_proxies(in)) :
        zip_longest(in.private_keys, pairing_proxies(in))[i][1] = NoKey

\* Database._create_database: one wallet per pair, its flag the default
create_wallets(in) ==
    LET pairs == zip_longest(in.private_keys, pairing_proxies(in))
    IN  [i \in DOMAIN pairs |-> Wallet(pairs[i][1], pairs[i][2], FALSE)]

\* the text files of a creation: up to NumWallets key lines, repeats
\* allowed, up to NumWallets + 1 proxy lines, either setting of
\* USE_MOBILE_PROXY, and a store file of an earlier creation or none
CreateInit ==
    /\ input \in [private_keys : SeqsUpTo(Keys, NumWallets),
                  proxies : SeqsUpTo(ProxyLines, NumWallets + 1),
                  mobile : BOOLEAN]
    /\ disk \in {<<>>, FileOf(1, <<FALSE>>)}
    /\ onchain = [a \in {Address(k) : k \in Keys} |-> FALSE]
    /\ env = [highs |-> 0, prices |-> {}]
    /\ pc = "create"
    /\ tries = REQUEST_MAX_RETRIES
    /\ rt = RetryIdle
    /\ db = <<>>
    /\ loaded = <<>>
    /\ index = 0
    /\ wallet = Wallet(1, NoProxy, FALSE)
    /\ gate = GateIdle
    /\ att = AttIdle
    /\ tx = TxIdle
    /\ net = {}
    /\ paced = 0
    /\ hist = <<>>
    /\ saves = 0

\* `db = Database._create_database()` ends in sys.exit(1)
create_database_exit ==
    /\ pc = "create"
    /\ create_exits(input)
    /\ pc' = "exited"
    /\ UNCHANGED <<disk, db, loaded, index, wallet, onchain, gate, rt, tries,
                   att, tx, net, paced, hist, env, saves, input>>

\* `db = Database._create_database()` returns; `db.save_database()`
create_database ==
    /\ pc = "create"
    /\ ~create_exits(input)
    /\ db' = create_wallets(input)
    /\ disk' = save_database(create_wallets(input))
    /\ saves' = saves + 1
    /\ pc' = "created"
    /\ UNCHANGED <<loaded, index, wallet, onchain, gate, rt, tries, att, tx,
                   net, paced, hist, env, input>>

CreateNext ==
    \/ create_database_exit
    \/ create_database

CreateSpec == CreateInit /\ [][CreateNext]_vars

(* ----------------------- save, then load again ------------------------- *)
\* the wallets a store may hold: any key, a proxy or none, either flag
Wallets ==
    {Wallet(pk, proxy, flag) :
        pk \in Keys, proxy \in {NoProxy, ProxyOf(1)}, flag \in BOOLEAN}

\* a Database of up to NumWallets wallets in memory, and no file yet
RoundTripInit ==
    /\ db \in SeqsUpTo(Wallets, NumWallets)
    /\ disk = <<>>
    /\ input = NoInput
    /\ onchain = [a \in {Address(k) : k \in Keys} |-> FALSE]
    /\ env = [highs |-> 0, prices |-> {}]
    /\ pc = "store"
    /\ tries = REQUEST_MAX_RETRIES
    /\ rt = RetryIdle
    /\ loaded = <<>>
    /\ index = 0
    /\ wallet = Wallet(1, NoProxy, FALSE)
    /\ gate = GateIdle
    /\ att = AttIdle
    /\ tx = TxIdle
    /\ net = {}
    /\ paced = 0
    /\ hist = <<>>
    /\ saves = 0

\* `db.save_database()`
store_save ==
    /\ pc = "store"
    /\ disk' = save_database(db)
    /\ saves' = saves + 1
    /\ pc' = "saved"
    /\ UNCHANGED <<db, loaded, index, wallet, onchain, gate, rt, tries, att,
                   tx, net, paced, hist, env, input>>

\* `Database.read_from_json()` of the file just saved
store_reload ==
    /\ pc = "saved"
    /\ loaded' = read_from_json(disk)
    /\ pc' = "reloaded"
    /\ UNCHANGED <<disk, db, index, wallet, onchain, gate, rt, tries, att, tx,
                   net, paced, hist, env, saves, input>>

RoundTripNext ==
    \/ store_save
    \/ store_reload

RoundTripSpec == RoundTripInit /\ [][RoundTripNext]_vars

(* --------------------------- unique addresses -------------------------- *)
\* no two records of a list have the same address
unique_addresses(records) ==
    \A i, j \in DOMAIN records :
        i # j => records[i].address # records[j].address

\* C12: neither Database.wallets nor the store file ever holds two records
\* with the same address, whatever key lines the store was created from.
C12_UniqueAddresses == unique_addresses(db) /\ unique_addresses(disk)

(* ------------------------ a failed claim attempt ----------------------- *)
\* the steps of an iteration after the selection, up to the pacing sleep
InAttempt == pc \notin {"start", "loop", "done", "crashed", "harness",
                        "harness_done"}

\* `_claim` is about to return a false result to Claimer.claim
AttemptFailed ==
    pc = "gate_ret" /\ att.out = "returned" /\ ~Truthy(att.result)

\* C11: no step of an attempt before its return touches the store, and the
\* step that takes a false result of `_claim` leaves the list and the file
\* as they were and writes nothing: the wallet is still at its index in the
\* list, no other wallet is gone, and a later draw can select it again.
C11_FailedAttemptKeepsStore ==
    [][ /\ (InAttempt /\ pc # "gate_ret") =>
              (db' = db /\ disk' = disk /\ saves' = saves)
        /\ AttemptFailed =>
              /\ db' = db
              /\ disk' = disk
              /\ saves' = saves
              /\ <<wallet, index>> \in get_random_wallet(db')
      ]_vars

\* a transaction was sent and not verified, the attempt returned False and
\* the wallet is still in the store and in the file, which was not written
C11_Witness ==
    /\ pc = "pace"
    /\ gate.out = "returned"
    /\ gate.result = False
    /\ tx.sends = 1
    /\ Len(db) = 2
    /\ db = loaded
    /\ disk = to_dict(db)
    /\ saves = 0
    /\ db[index + 1] = wallet

(* ------------------------ Client._get_tx_params ------------------------ *)
\* C13: a network error in the chain id, nonce or gas price read of
\* _get_tx_params is never an exception out of the call: the call gives the
\* failure value, which the retry wrapper answers with a sleep and another
\* attempt.
C13_BuildErrorIsReported ==
    tx.failed = "build" => (tx.out # "raised" /\ pc # "crashed")

(* ------------------- what the retry wrapper retries -------------------- *)
\* the result of the last call of the operation, None before the first
LastResult == IF Len(hist) = 0 THEN None ELSE hist[Len(hist)]

\* C14, every falsy result retried: an empty or false result (empty list, zero, false, absent)
\* is never what the wrapper returns after a call: a wrapper that has
\* returned a value that is not true returned the False of its exhaustion,
\* after a sleep for every call.
C14_FalsyResultRetried ==
    (rt.phase = "ret" /\ ~Truthy(rt.result)) =>
        (rt.result = False /\ rt.sleeps = rt.calls)

\* C14, only None and False retried: the wrapper sleeps only after a result that is None or
\* False; any other result, an empty list or zero included, ends the
\* wrapper at once, which returns it as it is with no sleep after that call.
C14_OnlyNoneAndFalseRetried ==
    /\ rt.calls = Len(hist)
    /\ \A i \in 1 .. Len(hist) - 1 : FailureValue(hist[i])
    /\ rt.phase = "sleep" => FailureValue(LastResult)
    /\ (Len(hist) > 0 /\ ~FailureValue(LastResult)) =>
          /\ rt.phase = "ret"
          /\ rt.result = LastResult
          /\ rt.sleeps = Len(hist) - 1

\* the second call gave an empty list, which the wrapper returned
C14_Witness ==
    /\ pc = "harness_done"
    /\ hist = <<None, PyList(<<>>)>>
    /\ rt.result = PyList(<<>>)
    /\ rt.sleeps = 1

(* --------------------------- Client.verify_tx -------------------------- *)
\* C15: once the wait for the receipt is over, verify_tx has returned to
\* `_claim`, which returns its value: True when the receipt has status 1 and
\* False for a receipt with another status or none and for a timeout or any
\* other exception of the wait; no exception leaves verify_tx.
C15_VerifyTxTrueIffStatusOne ==
    tx.receipt # "none" =>
        /\ att.out = "returned"
        /\ gate.out # "raised"
        /\ pc # "crashed"
        /\ att.result \in {True, False}
        /\ att.result = True <=> tx.receipt = "status1"

\* the wait for the receipt timed out and verify_tx gave False
C15_Witness ==
    /\ pc = "gate_ret"
    /\ tx.sends = 1
    /\ tx.receipt = "timeout"
    /\ att.out = "returned"
    /\ att.result = False

(* ------------------------- the pacing of the loop ---------------------- *)
\* the window of the pacing sleep
PacingWindow == TX_DELAY_LO .. TX_DELAY_HI

\* C16, every iteration paced: every iteration of the loop, the removal of a locally
\* flagged wallet included, has slept once for a delay of TX_DELAY_RANGE
\* when it hands over to the next selection.
C16_EveryIterationPaces ==
    [][(pc # "start" /\ pc' = "loop") => paced' \in PacingWindow]_vars

\* C16, returned attempts paced: an attempt that returns, claimed or failed, goes on to one
\* pacing sleep of a delay in TX_DELAY_RANGE and only then to the next
\* selection; the removal of a locally flagged wallet goes to the next
\* selection with no pacing sleep; nothing else leads to a selection.
C16_ReturnedAttemptsPace ==
    [][ /\ pc = "gate_ret" => (pc' = "pace" /\ paced' = 0)
        /\ pc = "pace" => (pc' = "loop" /\ paced' \in PacingWindow)
        /\ (pc = "loop" /\ pc' = "loop") =>
              /\ locally_claimed(wallet')
              /\ Len(db') = Len(db) - 1
              /\ paced' = 0
        /\ (pc # "start" /\ pc' = "loop") => pc \in {"pace", "loop"}
      ]_vars

\* of three wallets one was removed as flagged, with no network call, and
\* one after an attempt, whose pacing sleep has just ended
C16_Witness ==
    /\ pc = "loop"
    /\ paced \in PacingWindow
    /\ Len(loaded) = 3
    /\ Len(db) = 1
    /\ Cardinality(net) = 1

(* ------------------------- the store round trip ------------------------ *)
\* C17: the store read back from the file that save_database wrote has as
\* many records as the store saved, in the same order, each with the same
\* private key, proxy (or none) and claimed flag.
C17_SaveLoadRoundTrip ==
    pc = "reloaded" =>
        /\ Len(loaded) = Len(db)
        /\ \A i \in 1 .. Len(db) :
              /\ loaded[i].private_key = db[i].private_key
              /\ loaded[i].proxy = db[i].proxy
              /\ loaded[i].tokens_claimed = db[i].tokens_claimed

\* three records read back: a flagged one with no proxy, an unflagged one
\* with a proxy, and a repeat of the first key
C17_Witness ==
    /\ pc = "reloaded"
    /\ Len(loaded) = 3
    /\ db[1] = Wallet(2, NoProxy, TRUE)
    /\ db[2] = Wallet(1, ProxyOf(1), FALSE)
    /\ db[3] = Wallet(2, ProxyOf(1), TRUE)
    /\ loaded = db

(* ---------------------- the pairing of keys and proxies ---------------- *)
\* the length of the proxy list used for pairing, and its i-th proxy
UsedProxies ==
    IF input.mobile
    THEN Len(input.proxies) * Len(input.private_keys)
    ELSE Len(input.proxies)
UsedProxy(i) ==
    IF input.mobile
    THEN input.proxies[((i - 1) % Len(input.proxies)) + 1]
    ELSE input.proxies[i]

\* C18: create_database pairs the i-th key with the i-th proxy of the list
\* used for pairing.  When that list is not longer than the key list the
\* store is created and saved with one unflagged record per key, in order,
\* the keys past the end of the proxy list with no proxy; when it is longer
\* (the list repeated under USE_MOBILE_PROXY included) creation ends in the
\* fatal exit and nothing is saved.
C18_CreatePairsByPosition ==
    [][ pc = "create" =>
          IF UsedProxies > Len(input.private_keys)
          THEN /\ pc' = "exited"
               /\ db' = db
               /\ disk' = disk
               /\ saves' = saves
          ELSE /\ pc' = "created"
               /\ Len(db') = Len(input.private_keys)
               /\ \A i \in 1 .. Len(db') :
                     /\ db'[i].private_key = input.private_keys[i]
                     /\ db'[i].proxy =
                          IF i <= UsedProxies THEN UsedProxy(i) ELSE NoProxy
                     /\ ~db'[i].tokens_claimed
               /\ disk' = to_dict(db')
               /\ saves' = saves + 1
      ]_vars

\* three keys and one proxy line: the second and third wallet have no proxy
C18_Witness ==
    /\ pc = "created"
    /\ input.private_keys = <<1, 2, 3>>
    /\ Len(input.proxies) = 1
    /\ ~input.mobile
    /\ Len(db) = 3
    /\ db[1].proxy = input.proxies[1]
    /\ db[2].proxy = NoProxy
    /\ db[3].proxy = NoProxy
    /\ disk = to_dict(db)

(* ------------------------ the file and the list ------------------------ *)
\* C19: from the load on, and so at the start of every iteration of the
\* loop, the store file holds the records of Database.wallets: reading it
\* gives the list in memory; every removal was saved in the step that made
\* it, one save of the whole list per removal, and after a save the file is
\* the list's records.
C19_FileMatchesMemory ==
    pc # "start" =>
        /\ read_from_json(disk) = db
        /\ Len(disk) = Len(db)
        /\ saves = Len(loaded) - Len(db)
        /\ saves > 0 => disk = save_database(db)

\* an iteration starts after two removals, each saved
C19_Witness ==
    /\ pc = "loop"
    /\ Len(loaded) = 3
    /\ Len(db) = 1
    /\ saves = 2
    /\ disk = save_database(db)
    /\ Cardinality(net) = 2

(* ------------------- calls and sleeps of the retry wrapper ------------- *)
\* C20: when the k-th call is the first to give a result that is not a
\* failure (1 <= k <= tries), the wrapper has made k calls and slept k - 1
\* times, returns that result as it is and calls no more; when every one of
\* the tries calls has failed the wrapper has slept tries times, once after
\* the last call too, and returns False.
C20_RetryCallsAndSleeps ==
    /\ rt.calls = Len(hist)
    /\ Len(hist) <= tries
    /\ \A k \in 1 .. Len(hist) :
          ~FailureValue(hist[k]) =>
              /\ k = Len(hist)
              /\ rt.phase = "ret"
              /\ rt.calls = k
              /\ rt.sleeps = k - 1
              /\ rt.result = hist[k]
    /\ (AllFailed /\ rt.phase = "ret") =>
          /\ rt.calls = tries
          /\ rt.sleeps = tries
          /\ rt.result = False

\* with four tries the third call is the first to succeed
C20_Witness ==
    /\ pc = "harness_done"
    /\ tries = 4
    /\ hist = <<None, False, PyList(<<5>>)>>
    /\ rt.calls = 3
    /\ rt.sleeps = 2
    /\ rt.result = PyList(<<5>>)

(* --------------------- the list is only ever shortened ----------------- *)
\* s is t with some of its elements left out, the rest in t's order
IsSubsequence(s, t) ==
    \E f \in [1 .. Len(s) -> 1 .. Len(t)] :
        /\ \A i \in 1 .. Len(s) : s[i] = t[f[i]]
        /\ \A i, j \in 1 .. Len(s) : i < j => f[i] < f[j]

\* s without its i-th element
Without(s, i) ==
    [j \in 1 .. Len(s) - 1 |-> IF j < i THEN s[j] ELSE s[j + 1]]

\* C21: after every step of Claimer.claim the list in memory is the loaded
\* list with some wallets left out, the others unchanged and in the loaded
\* order, and the loaded list itself is what the load gave.  A step that
\* changes the list removes one wallet, the one just selected, at the index
\* it was selected at, and does so only when that wallet's flag is set or
\* its attempt has returned a true result.
C21_StoreOnlyShrinks ==
    [][ /\ IsSubsequence(db', loaded')
        /\ pc # "start" => loaded' = loaded
        /\ (pc # "start" /\ db' # db) =>
              /\ index' + 1 \in 1 .. Len(db)
              /\ db[index' + 1] = wallet'
              /\ db' = Without(db, index' + 1)
              /\ \/ pc = "loop" /\ wallet'.tokens_claimed
                 \/ /\ pc = "gate_ret"
                    /\ att.out = "returned"
                    /\ Truthy(att.result)
                    /\ ~wallet'.tokens_claimed
      ]_vars

\* of three wallets the second is left: one was removed as flagged with no
\* network call, the other after its attempt
C21_Witness ==
    /\ pc = "loop"
    /\ Len(loaded) = 3
    /\ db = <<loaded[2]>>
    /\ Cardinality(net) = 1
    /\ saves = 2

=============================================================================
